---- MODULE Spec2Model ----
(***************************************************************************)
(* ImageListView (src/imagelistview.cpp): a tiled image view whose images  *)
(* are loaded by a reactive pipeline                                       *)
(*   trigger -> debounce -> snapshot (UI) -> switch_on_next -> decode      *)
(*           -> buffer_with_time -> apply (UI)                             *)
(* backed by a QCache whose capacity follows the geometry.                 *)
(*                                                                         *)
(* Time is counted in ticks; one debounce / buffer period (250ms in the    *)
(* source) is TicksPerPeriod ticks.                                        *)
(***************************************************************************)
EXTENDS Integers, Sequences, FiniteSets, TLC

\* ----------------------------------------------------------------- bounds
\* ticks in one 250ms period (debounce, line 44; buffer_with_time, line 92)
TicksPerPeriod == 2
\* emitLoadEvent calls in one behaviour
MaxEmits == 2
\* rows of the backing list in Spec
MaxRows == 2
\* geometry inputs of SpecGeom
GeomMaxW == 4
GeomMaxH == 3
GeomMaxCols == 2
GeomMaxScroll == 2
GeomMaxRows == 4
\* keys (file names) that reach the cache in SpecCache
CacheMaxKey == 6
\* rows of the model when SpecCache runs updateGeometries
CacheMaxRows == 2

\* ---------------------------------------------------------------- integers
\* C++ integer division truncates toward zero (b # 0)
CDiv(a, b) ==
    IF (a >= 0) = (b > 0)
    THEN IF a >= 0 THEN a \div b ELSE (0 - a) \div (0 - b)
    ELSE IF a >= 0 THEN 0 - (a \div (0 - b)) ELSE 0 - ((0 - a) \div b)

\* C++ remainder: a - b * (a / b)
CMod(a, b) == a - b * CDiv(a, b)

qMin(a, b) == IF a < b THEN a ELSE b

qMax(a, b) == IF a > b THEN a ELSE b

\* ------------------------------------------------------------------- QRect
\* QRect keeps two corners; QRect(x, y, w, h) has x2 = x + w - 1
QRect(x, y, w, h) == [x1 |-> x, y1 |-> y, x2 |-> x + w - 1, y2 |-> y + h - 1]

\* the default-constructed QRect() returned for an invalid index (line 153)
NullRect == [x1 |-> 0, y1 |-> 0, x2 |-> 0 - 1, y2 |-> 0 - 1]

rectIsNull(r) == r.x2 = r.x1 - 1 /\ r.y2 = r.y1 - 1

rectIsValid(r) == r.x1 <= r.x2 /\ r.y1 <= r.y2

\* QRect::normalized() (line 129): swaps corners that are in the wrong order
normalized(r) ==
    LET sx == r.x2 < r.x1 - 1
        sy == r.y2 < r.y1 - 1
    IN  [x1 |-> IF sx THEN r.x2 ELSE r.x1, x2 |-> IF sx THEN r.x1 ELSE r.x2,
         y1 |-> IF sy THEN r.y2 ELSE r.y1, y2 |-> IF sy THEN r.y1 ELSE r.y2]

\* the extent of a rect along one axis as QRect::operator| and intersects see it
rectLo(a1, a2) == IF a2 - a1 + 1 < 0 THEN a2 ELSE a1

rectHi(a1, a2) == IF a2 - a1 + 1 < 0 THEN a1 ELSE a2

\* QRect::united (line 103)
united(a, b) ==
    IF rectIsNull(a) THEN b
    ELSE IF rectIsNull(b) THEN a
    ELSE [x1 |-> qMin(rectLo(a.x1, a.x2), rectLo(b.x1, b.x2)),
          x2 |-> qMax(rectHi(a.x1, a.x2), rectHi(b.x1, b.x2)),
          y1 |-> qMin(rectLo(a.y1, a.y2), rectLo(b.y1, b.y2)),
          y2 |-> qMax(rectHi(a.y1, a.y2), rectHi(b.y1, b.y2))]

\* QRect::intersects (line 105)
intersects(a, b) ==
    /\ ~rectIsNull(a)
    /\ ~rectIsNull(b)
    /\ ~(rectLo(a.x1, a.x2) > rectHi(b.x1, b.x2))
    /\ ~(rectLo(b.x1, b.x2) > rectHi(a.x1, a.x2))
    /\ ~(rectLo(a.y1, a.y2) > rectHi(b.y1, b.y2))
    /\ ~(rectLo(b.y1, b.y2) > rectHi(a.y1, a.y2))

\* every point of b lies in a (both valid)
rectCovers(a, b) ==
    a.x1 <= b.x1 /\ b.x2 <= a.x2 /\ a.y1 <= b.y1 /\ b.y2 <= a.y2

\* QRect::center(): the midpoint, truncated toward zero
rectCenter(r) == [x |-> CDiv(r.x1 + r.x2, 2), y |-> CDiv(r.y1 + r.y2, 2)]

\* ------------------------------------------------------------------- state
VARIABLES
    modelKeys,      \* the backing list: modelKeys[row + 1] is the key (file name) of row
    columnCount,    \* m_columnCount
    viewW,          \* viewport()->width()
    viewH,          \* viewport()->height()
    vOffset,        \* verticalScrollBar()->value()
    vMax,           \* verticalScrollBar()->maximum()
    cache,          \* m_imageCache: entries, most recently used first
    maxCost,        \* m_imageCache.maxCost()
    debounceLeft,   \* ticks until the debounce timer fires; NotArmed when idle
    sinceTrigger,   \* ticks since the last emitLoadEvent (saturates above the period)
    uiTrig,         \* debounced events queued for the UI run loop (line 46)
    gen,            \* snapshots taken so far: the newest generation
    toSwitch,       \* task batches on their way to switch_on_next (line 86)
    curGen,         \* generation switch_on_next is subscribed to (0: none)
    curTasks,       \* its tasks not yet decoded, in concat order
    buf,            \* results in the open buffer_with_time window
    bufLeft,        \* ticks until the window closes
    uiBatches,      \* closed non-empty windows queued for the UI run loop (line 96)
    ev,             \* what the step just taken did (cleared by the next step)
    geo,            \* SpecGeom: the last geometry call and its result
    emits,          \* emitLoadEvent calls so far
    lru,            \* SpecCache: the run of inserts since the cache was last cleared
    loading,        \* keys the newest snapshot took, no result of its own applied yet
    resetGen,       \* the newest generation when reset() last ran (0: never)
    decoding,       \* SpecWorkers: the tasks a worker thread is decoding
    taken           \* history: keys whose image a snapshot took since the last clear()

hostVars == <<modelKeys, columnCount, viewW, viewH, vOffset, vMax>>

cacheVars == <<cache, maxCost>>

pipeVars == <<debounceLeft, sinceTrigger, uiTrig, gen, toSwitch, curGen, curTasks,
              buf, bufLeft, uiBatches>>

\* what a step that emits no load event leaves alone besides the pipeline
kept == <<emits, geo, lru, decoding>>

\* what the pipeline remembers of its past
histVars == <<loading, resetGen, taken>>

vars == <<hostVars, cacheVars, pipeVars, emits, ev, geo, lru, histVars, decoding>>

\* --------------------------------------------------------------- geometry
\* model()->rowCount(rootIndex())
rowCount == Len(modelKeys)

\* model()->data(model()->index(row, 0)).toString() (line 53)
keyOfRow(row) == modelKeys[row + 1]

\* QModelIndex(): an invalid index, whose row() is -1
InvalidRow == 0 - 1

\* model()->index(row, 0, rootIndex()): invalid outside [0, rowCount)
modelIndex(row) == IF row >= 0 /\ row < rowCount THEN row ELSE InvalidRow

\* horizontalOffset(), lines 269-273
horizontalOffset == 0

\* verticalOffset(), lines 275-278
verticalOffset == vOffset

\* viewport()->rect()
viewportRect == QRect(0, 0, viewW, viewH)

\* the tile width of lines 161 and 201 (columnCount # 0)
tileWidth == CDiv(viewW, columnCount)

\* the tile height of lines 163 and 203
tileHeight == qMin(tileWidth, viewH)

\* visualRect divides by m_columnCount only (lines 157, 159, 161)
visualRectDivByZero == columnCount = 0

\* visualRect(index), lines 150-175, for index = the index of `row` (or invalid)
visualRect(row) ==
    IF row = InvalidRow THEN NullRect
    ELSE LET r == CDiv(row, columnCount)
             c == CMod(row, columnCount)
             x == c * tileWidth
             y == r * tileHeight
         IN  QRect(x - horizontalOffset, y - verticalOffset, tileWidth, tileHeight)

\* indexAt divides by m_columnCount (201), by the tile width (205), by the tile
\* height (207)
indexAtDivByZero ==
    \/ columnCount = 0
    \/ tileWidth = 0
    \/ tileHeight = 0

\* an indexAt that forgets the scroll offset
indexAt_IgnoresScroll(px, py) ==
    LET c == CDiv(px + horizontalOffset, tileWidth)
        r == CDiv(py, tileHeight)
        i == r * columnCount + c
    IN  IF i >= 0 /\ i < rowCount THEN i ELSE InvalidRow

\* indexAt(point), lines 194-216 (model() is set); the row of the index returned
indexAt(px, py) ==
    LET x == px + horizontalOffset
        y == py + verticalOffset
        c == CDiv(x, tileWidth)
        r == CDiv(y, tileHeight)
        i == r * columnCount + c
    IN  IF i >= 0 /\ i < rowCount THEN i ELSE InvalidRow

\* modelIndexRangeForRect(rect), lines 127-148: <<begin, end>>
modelIndexRangeForRect(rect) ==
    LET r == normalized(rect)
        startIndex == indexAt(r.x1, r.y1)
        finishIndex == indexAt(r.x2, r.y2)
        begin == IF startIndex # InvalidRow THEN startIndex ELSE 0
        end == IF finishIndex # InvalidRow THEN finishIndex + 1 ELSE rowCount
    IN  <<begin, end>>

\* ------------------------------------------------------------------ QCache
\* An entry is [key, img]; img is "ok" (a decoded image) or "null" (an empty
\* QImage).  Every entry has cost 1 (line 101 passes no cost).  The sequence
\* is QCache's list, most recently used first.
cacheKeys(c) == {c[i].key : i \in 1..Len(c)}

\* QCache::remove(key), as insert and take use it
cacheRemove(c, k) == SelectSeq(c, LAMBDA e : e.key # k)

\* a trim that unlinks from the most recently used end
cacheTrim_NewestFirst(c, m) ==
    SubSeq(c, Len(c) - qMin(Len(c), qMax(m, 0)) + 1, Len(c))

\* QCache::trim(m): unlink from the least recently used end while total > m
cacheTrim(c, m) == SubSeq(c, 1, qMin(Len(c), qMax(m, 0)))

\* QCache::insert(key, object) (line 101): replaces the key, refuses an object
\* dearer than maxCost, makes room, links the entry in front
cacheInsert(c, mx, k, img) ==
    IF 1 > mx THEN cacheRemove(c, k)
    ELSE <<[key |-> k, img |-> img]>> \o cacheTrim(cacheRemove(c, k), mx - 1)

\* QCache::take(key) (line 54): the object taken out, "none" for a null pointer
cacheTake(c, k) ==
    IF k \in cacheKeys(c)
    THEN (CHOOSE e \in {c[i] : i \in 1..Len(c)} : e.key = k).img
    ELSE "none"

\* a setMaxCost that leaves the trimming to the next insert
cacheSetMaxCost_Lazy(c, m) == c

\* QCache::setMaxCost(m) (line 415): trims at once
cacheSetMaxCost(c, m) == cacheTrim(c, m)

\* QCache::object(key) (line 363): a hit becomes the most recently used entry
cacheObject(c, k) ==
    IF k \in cacheKeys(c)
    THEN <<CHOOSE e \in {c[i] : i \in 1..Len(c)} : e.key = k>> \o cacheRemove(c, k)
    ELSE c

\* the constructor's m_imageCache(100), line 32
InitialMaxCost == 100

\* ---------------------------------------------------------------- pipeline
NotArmed == 0 - 1

\* ticks of silence recorded at most
LongAgo == TicksPerPeriod + 1

\* generations started or owed: snapshots taken, debounced events queued for the
\* UI thread, and an armed debounce timer
promised == gen + uiTrig + (IF debounceLeft # NotArmed THEN 1 ELSE 0)

\* the model stops calling emitLoadEvent after MaxEmits calls
canEmit == emits < MaxEmits

\* a debounce that lets a running timer run on instead of restarting it
debounceOnNext_KeepsDeadline ==
    IF debounceLeft # NotArmed THEN debounceLeft ELSE TicksPerPeriod

\* emitLoadEvent(), lines 111-114, into debounce(250ms), line 44: every event
\* restarts the timer
debounceOnNext == TicksPerPeriod

\* the map of lines 48-57: one task per row of the range, each taking its
\* key's image out of the cache; [tasks, cache]
RECURSIVE buildTasks(_, _, _, _)
buildTasks(row, end, c, tasks) ==
    IF row >= end THEN [tasks |-> tasks, cache |-> c]
    ELSE LET k == keyOfRow(row)
         IN  buildTasks(row + 1, end, cacheRemove(c, k),
                        Append(tasks, [row |-> row, key |-> k, prior |-> cacheTake(c, k)]))

\* a decode that loads the file whatever the task brings along
decodeLoads_Always(task) == TRUE

\* the decode of lines 65-75: does the task load its file?
decodeLoads(task) == task.prior # "ok"

\* a decode that files its result in the cache itself, on the worker thread
decodeCache_InsertsInWorker(c, mx, key, img) == cacheInsert(c, mx, key, img)

\* the cache as the decode of lines 65-75 leaves it: the lambda captures nothing
\* of the view (line 65) and works on the task it was handed
decodeCache(c, mx, key, img) == c

\* the subscriber of lines 98-104: the cache after inserting every item
RECURSIVE applyInserts(_, _, _)
applyInserts(items, c, mx) ==
    IF items = <<>> THEN c
    ELSE applyInserts(Tail(items), cacheInsert(c, mx, Head(items).key, Head(items).img), mx)

\* lines 99-104: the union of the items' tile rects
RECURSIVE invalidatingRect(_, _)
invalidatingRect(items, acc) ==
    IF items = <<>> THEN acc
    ELSE CHOOSE r \in {invalidatingRect(Tail(items), u) :
                          u \in {united(acc, visualRect(modelIndex(Head(items).row)))}} : TRUE

\* a subscriber that repaints every item's tile on its own
applyRepaints_PerItem(items) ==
    [i \in 1..Len(items) |-> visualRect(modelIndex(items[i].row))]

\* lines 105-107: the viewport()->update() calls of one applied batch
applyRepaints(items) ==
    LET r == invalidatingRect(items, NullRect)
    IN  IF intersects(viewportRect, r) THEN <<r>> ELSE <<>>

\* ------------------------------------------------------- updateGeometries
\* verticalScrollBar()->width(), a property of the style
ScrollBarWidth == 1

\* the overscan factor of line 415
Overscan == 5

\* line 408: rows of tiles the whole model needs
ugViewportRowCount ==
    CDiv(rowCount, columnCount) + (IF CMod(rowCount, columnCount) # 0 THEN 1 ELSE 0)

\* line 415: the new cache capacity
ugMaxCost == ugViewportRowCount * columnCount * Overscan

\* lines 408 and 415 for a model of n rows shown in cols columns (cols # 0)
ugMaxCostFor(n, cols) ==
    (CDiv(n, cols) + (IF CMod(n, cols) # 0 THEN 1 ELSE 0)) * cols * Overscan

\* lines 397-404: the width with the scroll bar's added back when it is shown
ugViewportWidth(w, sbVisible) == w + (IF sbVisible THEN ScrollBarWidth ELSE 0)

\* line 418: the model does not fit the viewport
ugNeedsScroll(w, h, sbVisible) ==
    ugViewportRowCount * qMin(CDiv(ugViewportWidth(w, sbVisible), columnCount), h) > h

\* lines 420-424: the tile height once the scroll bar takes its width
ugScrolledTileHeight(w, h, sbVisible) ==
    qMin(CDiv(ugViewportWidth(w, sbVisible) - ScrollBarWidth, columnCount), h)

\* lines 418-449: the new verticalScrollBar()->maximum()
ugScrollMax(w, h, sbVisible) ==
    IF ugNeedsScroll(w, h, sbVisible)
    THEN LET m == ugViewportRowCount * ugScrolledTileHeight(w, h, sbVisible)
         IN  IF m < h THEN 1 ELSE m - h
    ELSE 0

\* the divisions of updateGeometries: by m_columnCount (408, 410, 422) and by
\* the tile height (436)
ugDivByZero(w, h, sbVisible) ==
    \/ columnCount = 0
    \/ ugNeedsScroll(w, h, sbVisible) /\ ugScrolledTileHeight(w, h, sbVisible) = 0

\* the scroll bar is shown while its range is not empty
scrollBarVisible == vMax > 0

\* ------------------------------------------------------------ Spec: inputs
\* the keys (file names) the rows of the backing list cycle through
Keys == {1, 2}

\* the backing list with n rows: rows that are Cardinality(Keys) apart share a key
keysFor(n) == [i \in 1..n |-> ((i - 1) % Cardinality(Keys)) + 1]

\* the keys whose file QImage::load cannot decode
BadKeys == {2}

\* QImage::load(imageFileName), line 71: the image it leaves
imageLoad(k) == IF k \in BadKeys THEN "null" ELSE "ok"

\* the constructor's m_columnCount{ 5 }, line 31
InitialColumnCount == 5

\* column counts handed to setColumnCount
ColumnCounts == {1, 2}

\* viewport sizes the host gives the view
ViewWidths == {10}

ViewHeights == {2}

\* a geometry in which no function of the view divides by zero
geometryOk(w, h, cols) == cols >= 1 /\ CDiv(w, cols) >= 1 /\ h >= 1

\* -------------------------------------------------------------------- Init
\* the pipeline after the constructor, lines 34-109: nothing armed, nothing queued
InitPipeline ==
    /\ debounceLeft = NotArmed
    /\ sinceTrigger = LongAgo
    /\ uiTrig = 0
    /\ gen = 0
    /\ toSwitch = <<>>
    /\ curGen = 0
    /\ curTasks = <<>>
    /\ buf = <<>>
    /\ bufLeft = TicksPerPeriod
    /\ uiBatches = <<>>
    /\ ev = [step |-> "none", emit |-> FALSE]
    /\ emits = 0

\* the view after the constructor: an empty cache of cost 100 (line 32), the
\* scroll bar at rest, no geometry call made
InitView ==
    /\ InitPipeline
    /\ cache = <<>>
    /\ maxCost = InitialMaxCost
    /\ vOffset = 0
    /\ vMax = 0
    /\ geo = [op |-> "none"]
    /\ lru = [run |-> <<>>, pure |-> TRUE]
    /\ loading = {}
    /\ resetGen = 0
    /\ taken = {}
    /\ decoding = <<>>

\* the view constructed, its column count left at the constructor's or chosen by
\* the host while the model was still empty (the generation that starts finds no
\* rows), then given the rows of its model and a viewport
Init ==
    /\ InitView
    /\ columnCount \in {InitialColumnCount} \cup ColumnCounts
    /\ modelKeys \in {keysFor(n) : n \in 0..MaxRows}
    /\ viewW \in ViewWidths
    /\ viewH \in ViewHeights

\* ----------------------------------------------------------------- actions
\* a step that emits no load event
quiet == ev' = [step |-> "none", emit |-> FALSE]

\* emitLoadEvent(), lines 111-114: restarts the debounce timer
emitLoadEvent ==
    /\ canEmit
    /\ debounceLeft' = debounceOnNext
    /\ sinceTrigger' = 0
    /\ emits' = emits + 1
    /\ ev' = [step |-> "emit", emit |-> TRUE, since |-> sinceTrigger]

\* verticalScrollbarValueChanged(value), lines 452-456
Scroll(v) ==
    /\ v # vOffset
    /\ vOffset' = v
    /\ emitLoadEvent
    /\ UNCHANGED <<modelKeys, columnCount, viewW, viewH, vMax, cacheVars, uiTrig, gen,
                   toSwitch, curGen, curTasks, buf, bufLeft, uiBatches, geo, lru,
                   histVars, decoding>>

\* resizeEvent, lines 458-462: QAbstractItemView::resizeEvent runs
\* updateGeometries (lines 392-450) on the new viewport, then the load event
Resize(w, h) ==
    /\ geometryOk(w, h, columnCount)
    /\ ~ugDivByZero(w, h, scrollBarVisible)
    /\ viewW' = w
    /\ viewH' = h
    /\ maxCost' = ugMaxCost
    /\ cache' = cacheSetMaxCost(cache, ugMaxCost)
    /\ vMax' = ugScrollMax(w, h, scrollBarVisible)
    /\ vOffset' = qMin(vOffset, ugScrollMax(w, h, scrollBarVisible))
    /\ emitLoadEvent
    /\ UNCHANGED <<modelKeys, columnCount, uiTrig, gen, toSwitch, curGen, curTasks,
                   buf, bufLeft, uiBatches, geo, lru, histVars, decoding>>

\* reset(), lines 469-474
Reset ==
    /\ cache' = <<>>
    /\ resetGen' = gen
    /\ taken' = {}
    /\ emitLoadEvent
    /\ UNCHANGED <<hostVars, maxCost, uiTrig, gen, toSwitch, curGen, curTasks,
                   buf, bufLeft, uiBatches, geo, lru, loading, decoding>>

\* setColumnCount(columnCount), lines 121-125
SetColumnCount(c) ==
    /\ c # columnCount
    /\ geometryOk(viewW, viewH, c)
    /\ columnCount' = c
    /\ cache' = <<>>
    /\ resetGen' = gen
    /\ taken' = {}
    /\ emitLoadEvent
    /\ UNCHANGED <<modelKeys, viewW, viewH, vOffset, vMax, maxCost, uiTrig, gen,
                   toSwitch, curGen, curTasks, buf, bufLeft, uiBatches, geo, lru,
                   loading, decoding>>

\* time passing while a closed window still waits for the UI thread
Tick_UiBusy ==
    /\ debounceLeft # 0
    /\ bufLeft # 0
    /\ debounceLeft' = IF debounceLeft = NotArmed THEN NotArmed ELSE debounceLeft - 1
    /\ bufLeft' = bufLeft - 1
    /\ sinceTrigger' = qMin(sinceTrigger + 1, LongAgo)
    /\ ev' = [step |-> "none", emit |-> FALSE]
    /\ UNCHANGED <<hostVars, cacheVars, uiTrig, gen, toSwitch, curGen, curTasks,
                   buf, uiBatches, emits, geo, lru, decoding, histVars>>

\* time passes; a timer that is due fires first, and the UI run loop has run the
\* pipeline work queued for it (lines 46 and 96) before a whole tick is over
Tick ==
    /\ debounceLeft # 0
    /\ bufLeft # 0
    /\ uiTrig = 0
    /\ uiBatches = <<>>
    /\ debounceLeft' = IF debounceLeft = NotArmed THEN NotArmed ELSE debounceLeft - 1
    /\ bufLeft' = bufLeft - 1
    /\ sinceTrigger' = qMin(sinceTrigger + 1, LongAgo)
    /\ quiet
    /\ UNCHANGED <<hostVars, cacheVars, uiTrig, gen, toSwitch, curGen, curTasks,
                   buf, uiBatches, kept, histVars>>

\* debounce(250ms), line 44, passes the last event on to observe_on(UI), line 46
DebounceFire ==
    /\ debounceLeft = 0
    /\ debounceLeft' = NotArmed
    /\ uiTrig' = uiTrig + 1
    /\ quiet
    /\ UNCHANGED <<hostVars, cacheVars, sinceTrigger, gen, toSwitch, curGen, curTasks,
                   buf, bufLeft, uiBatches, kept, histVars>>

\* the map of lines 48-84 on the UI thread: the visible range, one task per row,
\* the images taken out of the cache; the batch leaves for switch_on_next (line 86)
Snapshot ==
    /\ uiTrig > 0
    /\ ~indexAtDivByZero
    /\ \E range \in {modelIndexRangeForRect(viewportRect)} :
       \E built \in {buildTasks(range[1], range[2], cache, <<>>)} :
           /\ cache' = built.cache
           /\ toSwitch' = Append(toSwitch, [gen |-> gen + 1, tasks |-> built.tasks])
           /\ ev' = [step |-> "snapshot", emit |-> FALSE, range |-> range]
           /\ loading' = {built.tasks[i].key : i \in 1..Len(built.tasks)}
           /\ taken' = taken \cup {built.tasks[i].key : i \in
                                   {j \in 1..Len(built.tasks) : built.tasks[j].prior # "none"}}
    /\ uiTrig' = uiTrig - 1
    /\ gen' = gen + 1
    /\ UNCHANGED <<hostVars, maxCost, debounceLeft, sinceTrigger, curGen, curTasks,
                   buf, bufLeft, uiBatches, kept, resetGen>>

\* switch_on_next, line 88: drops the batch it was subscribed to, subscribes the new
SwitchOnNext ==
    /\ toSwitch # <<>>
    /\ curGen' = Head(toSwitch).gen
    /\ curTasks' = Head(toSwitch).tasks
    /\ toSwitch' = Tail(toSwitch)
    /\ quiet
    /\ UNCHANGED <<hostVars, cacheVars, debounceLeft, sinceTrigger, uiTrig, gen,
                   buf, bufLeft, uiBatches, kept, histVars>>

\* lines 65-80: concat subscribes the next task's decode once the one before has
\* completed; the result passes switch_on_next and observe_on (line 90) into the
\* open buffer window
DecodeTask ==
    /\ curTasks # <<>>
    /\ LET task == Head(curTasks)
           img == IF decodeLoads(task) THEN imageLoad(task.key) ELSE task.prior
       IN  /\ buf' = Append(buf, [gen |-> curGen, row |-> task.row, key |-> task.key,
                                  img |-> img])
           /\ ev' = [step |-> "decode", emit |-> FALSE, prior |-> task.prior,
                     loaded |-> decodeLoads(task)]
           /\ cache' = decodeCache(cache, maxCost, task.key, img)
    /\ curTasks' = Tail(curTasks)
    /\ UNCHANGED <<hostVars, maxCost, debounceLeft, sinceTrigger, uiTrig, gen,
                   toSwitch, curGen, bufLeft, uiBatches, kept, histVars>>

\* buffer_with_time(250ms), line 92, closes the window; filter (line 94) drops an
\* empty one; the rest is queued for the UI thread (line 96)
BufferFlush ==
    /\ bufLeft = 0
    /\ bufLeft' = TicksPerPeriod
    /\ uiBatches' = IF buf = <<>> THEN uiBatches ELSE Append(uiBatches, buf)
    /\ buf' = <<>>
    /\ quiet
    /\ UNCHANGED <<hostVars, cacheVars, debounceLeft, sinceTrigger, uiTrig, gen,
                   toSwitch, curGen, curTasks, kept, histVars>>

\* the subscriber of lines 98-108 on the UI thread
Apply ==
    /\ uiBatches # <<>>
    /\ ~visualRectDivByZero
    /\ cache' = applyInserts(Head(uiBatches), cache, maxCost)
    /\ uiBatches' = Tail(uiBatches)
    /\ ev' = [step |-> "apply", emit |-> FALSE, n |-> Len(Head(uiBatches)),
              gens |-> {Head(uiBatches)[i].gen : i \in 1..Len(Head(uiBatches))},
              rows |-> {Head(uiBatches)[i].row : i \in 1..Len(Head(uiBatches))},
              nullKeys |-> {Head(uiBatches)[i].key : i \in
                               {j \in 1..Len(Head(uiBatches)) : Head(uiBatches)[j].img = "null"}},
              repaints |-> applyRepaints(Head(uiBatches))]
    /\ loading' = loading \ {Head(uiBatches)[i].key : i \in
                                {j \in 1..Len(Head(uiBatches)) : Head(uiBatches)[j].gen = gen}}
    /\ UNCHANGED <<hostVars, maxCost, debounceLeft, sinceTrigger, uiTrig, gen,
                   toSwitch, curGen, curTasks, buf, bufLeft, kept, resetGen, taken>>

Next ==
    \/ \E v \in 0..vMax : Scroll(v)
    \/ \E w \in ViewWidths, h \in ViewHeights : Resize(w, h)
    \/ Reset
    \/ \E c \in ColumnCounts : SetColumnCount(c)
    \/ Tick
    \/ DebounceFire
    \/ Snapshot
    \/ SwitchOnNext
    \/ DecodeTask
    \/ BufferFlush
    \/ Apply

Spec == Init /\ [][Next]_vars

\* ------------------------------------------------------- claims under Spec
\* C1: once the snapshot of a newer generation has run, no result of an older
\* generation is inserted into the cache or united into a damage rectangle:
\* every item of an applied batch belongs to the newest generation.
C1_NoStaleResultApplied ==
    ev.step = "apply" => \A g \in ev.gens : g = gen

\* C2: a trigger that follows the previous one by less than a period starts no
\* new generation; one that follows by more than a period starts exactly one;
\* debounce hands an event to the snapshot step only after a full period without
\* a trigger, and every snapshot consumes one such event.
C2_DebounceCollapsing ==
    [][/\ (ev'.emit /\ sinceTrigger < TicksPerPeriod) => promised' = promised
       /\ (ev'.emit /\ sinceTrigger > TicksPerPeriod) => promised' = promised + 1
       /\ uiTrig' = uiTrig + 1 => sinceTrigger = TicksPerPeriod
       /\ gen' # gen => (gen' = gen + 1 /\ uiTrig' = uiTrig - 1)]_vars

\* two triggers one tick apart, in one burst, owe a single generation
C2_Witness ==
    /\ ev.emit
    /\ ev.since > 0
    /\ ev.since < TicksPerPeriod
    /\ emits = 2
    /\ promised = 1

\* C5: an applied batch makes at most one repaint call; when a tile of the
\* batch intersects the viewport it makes exactly one, and its rectangle covers
\* the tile of every item of the batch.
C5_BatchDamageUnion ==
    ev.step = "apply" =>
        LET tiles == {visualRect(modelIndex(r)) : r \in ev.rows}
        IN  /\ Len(ev.repaints) <= 1
            /\ (\E t \in tiles : intersects(viewportRect, t)) =>
                   /\ Len(ev.repaints) = 1
                   /\ \A t \in tiles : rectCovers(ev.repaints[1], t)

\* a batch with two different tiles, repainted by one call
C5_Witness ==
    /\ ev.step = "apply"
    /\ Cardinality(ev.rows) >= 2
    /\ Len(ev.repaints) = 1

\* C9: a failed load is inserted into the cache as an empty image, and a later
\* generation that finds this entry does not load the key again.
C9_FailedLoadResolvedOnce ==
    /\ (ev.step = "apply" /\ ev.n <= maxCost) => ev.nullKeys \subseteq cacheKeys(cache)
    /\ ev.step = "decode" => ~(ev.prior = "null" /\ ev.loaded)

\* C11: from the snapshot that takes a key out of the cache until a result of
\* that generation for the key is applied, the cache holds nothing under the
\* key (paintEvent's probe, line 363, finds none and draws the placeholder).
C11_NoStaleCopyWhileLoading ==
    \A k \in loading : k \notin cacheKeys(cache)

\* C13: a task that brings a non-empty image from the cache loads nothing and
\* completes with that image; a task that brings none, or an empty one, loads
\* its key's file (once) and completes with what the load left.
C13_ReuseWithoutDecode ==
    ev.step = "decode" =>
        LET item == buf[Len(buf)]
        IN  /\ ev.prior = "ok" => (~ev.loaded /\ item.img = ev.prior)
            /\ ev.prior \in {"none", "null"} =>
                   (ev.loaded /\ item.img = imageLoad(item.key))

\* a later generation's task decoded with the image an earlier one had cached
C13_Witness ==
    /\ ev.step = "decode"
    /\ ev.prior = "ok"
    /\ gen = 2
    /\ buf[Len(buf)].gen = 2

\* C19: once reset() has cleared the cache, no result of a generation whose
\* snapshot was taken before that reset is inserted into the cache.
C19_ResetIsolation ==
    ev.step = "apply" => \A g \in ev.gens : g > resetGen

\* ---------------------------------------------------------------- SpecGeom
\* The geometry functions as the host and Qt call them, on every small
\* geometry: the degenerate ones (no column, a tile without width or height)
\* included.  geo records the call whose result the caller holds:
\*   [op, arg, ub, trap, val]
\* ub: the call divided by zero (undefined behaviour); trap: it then ended the
\* process (SIGFPE); val: what it returned otherwise.

\* the rest of the view while only its geometry is exercised
geomKept == <<hostVars, cacheVars, pipeVars, emits, ev, lru, histVars, decoding>>

\* the scroll ranges updateGeometries (lines 392-450) leaves for the geometry,
\* the scroll bar shown or hidden before; none where it divides by zero
geomScrollMaxes ==
    IF columnCount = 0 THEN {0}
    ELSE {0} \cup {ugScrollMax(viewW, viewH, sb) :
                      sb \in {b \in BOOLEAN : ~ugDivByZero(viewW, viewH, b)}}

\* a view whose host has set a model, a column count and a viewport, and
\* scrolled within the scroll bar's range
InitGeom ==
    /\ InitPipeline
    /\ cache = <<>>
    /\ maxCost = InitialMaxCost
    /\ geo = [op |-> "none"]
    /\ lru = [run |-> <<>>, pure |-> TRUE]
    /\ loading = {}
    /\ resetGen = 0
    /\ taken = {}
    /\ decoding = <<>>
    /\ columnCount \in 0..GeomMaxCols
    /\ modelKeys \in {keysFor(n) : n \in 0..GeomMaxRows}
    /\ viewW \in 0..GeomMaxW
    /\ viewH \in 0..GeomMaxH
    /\ vMax \in geomScrollMaxes
    /\ vOffset \in 0..qMin(vMax, GeomMaxScroll)

\* the points handed to indexAt: the viewport and one pixel around it
GeomXs == (0 - 1)..viewW

GeomYs == (0 - 1)..viewH

\* what a rect-valued call may return after undefined behaviour
UndefinedRects == {NullRect, viewportRect}

\* what an index-valued call may return after undefined behaviour
UndefinedRows == InvalidRow..(rowCount - 1)

\* what modelIndexRangeForRect may return after undefined behaviour
UndefinedRanges == {<<b, e>> : b \in 0..rowCount, e \in 0..rowCount}

\* visualRect(model()->index(row, 0)), lines 150-175; the division of line 157
\* is reached by a valid index only
GeomVisualRect(row) ==
    /\ geo.op = "none"
    /\ IF modelIndex(row) # InvalidRow /\ visualRectDivByZero
       THEN \/ geo' = [op |-> "visualRect", arg |-> row, ub |-> TRUE, trap |-> TRUE,
                       val |-> NullRect]
            \/ \E r \in UndefinedRects :
                  geo' = [op |-> "visualRect", arg |-> row, ub |-> TRUE, trap |-> FALSE,
                          val |-> r]
       ELSE geo' = [op |-> "visualRect", arg |-> row, ub |-> FALSE, trap |-> FALSE,
                    val |-> visualRect(modelIndex(row))]
    /\ UNCHANGED geomKept

\* indexAt(QPoint(px, py)), lines 194-216
GeomIndexAt(px, py) ==
    /\ geo.op = "none"
    /\ IF indexAtDivByZero
       THEN \/ geo' = [op |-> "indexAt", arg |-> <<px, py>>, ub |-> TRUE, trap |-> TRUE,
                       val |-> InvalidRow]
            \/ \E i \in UndefinedRows :
                  geo' = [op |-> "indexAt", arg |-> <<px, py>>, ub |-> TRUE,
                          trap |-> FALSE, val |-> i]
       ELSE geo' = [op |-> "indexAt", arg |-> <<px, py>>, ub |-> FALSE, trap |-> FALSE,
                    val |-> indexAt(px, py)]
    /\ UNCHANGED geomKept

\* modelIndexRangeForRect(rect), lines 127-148: it calls indexAt (line 133)
GeomRange(rect) ==
    /\ geo.op = "none"
    /\ IF indexAtDivByZero
       THEN \/ geo' = [op |-> "range", arg |-> rect, ub |-> TRUE, trap |-> TRUE,
                       val |-> <<0, 0>>]
            \/ \E v \in UndefinedRanges :
                  geo' = [op |-> "range", arg |-> rect, ub |-> TRUE, trap |-> FALSE,
                          val |-> v]
       ELSE geo' = [op |-> "range", arg |-> rect, ub |-> FALSE, trap |-> FALSE,
                    val |-> modelIndexRangeForRect(rect)]
    /\ UNCHANGED geomKept

\* indexAt(visualRect(index).center()) for the index of `row`, in a geometry
\* where neither function divides by zero
GeomRoundTrip(row) ==
    /\ geo.op = "none"
    /\ modelIndex(row) # InvalidRow
    /\ ~visualRectDivByZero
    /\ ~indexAtDivByZero
    /\ LET p == rectCenter(visualRect(modelIndex(row)))
       IN  geo' = [op |-> "roundTrip", arg |-> row, ub |-> FALSE, trap |-> FALSE,
                   val |-> indexAt(p.x, p.y)]
    /\ UNCHANGED geomKept

\* the caller is done with the result
GeomReturn ==
    /\ geo.op # "none"
    /\ geo' = [op |-> "none"]
    /\ UNCHANGED geomKept

\* the rects with their corners among the given coordinates
rectsOver(xs, ys) ==
    {[x1 |-> a, y1 |-> b, x2 |-> c, y2 |-> d] :
        a \in xs, b \in ys, c \in xs, d \in ys}

\* the query rects of SpecGeom: any two corners in the viewport or one pixel
\* around it, in either order, so valid, empty and non-normalized rects
GeomRects == rectsOver(GeomXs, GeomYs)

\* the valid rects inside the viewport
ViewportRects == {r \in rectsOver(0..(viewW - 1), 0..(viewH - 1)) : rectIsValid(r)}

\* modelIndexRangeForRect (lines 127-148) on a rect and on a rect that contains
\* it, the geometry unchanged in between; val is <<range of inner, range of outer>>
GeomRangePair(inner, outer) ==
    /\ geo.op = "none"
    /\ ~indexAtDivByZero
    /\ rectCovers(outer, inner)
    /\ geo' = [op |-> "rangePair", arg |-> <<inner, outer>>, ub |-> FALSE, trap |-> FALSE,
               val |-> <<modelIndexRangeForRect(inner), modelIndexRangeForRect(outer)>>]
    /\ UNCHANGED geomKept

NextGeom ==
    \/ geo.op = "none" /\ \E row \in InvalidRow..(rowCount - 1) : GeomVisualRect(row)
    \/ geo.op = "none" /\ \E px \in GeomXs, py \in GeomYs : GeomIndexAt(px, py)
    \/ geo.op = "none" /\ \E rect \in GeomRects : GeomRange(rect)
    \/ geo.op = "none" /\ \E row \in 0..(rowCount - 1) : GeomRoundTrip(row)
    \/ geo.op = "none" /\ \E outer \in ViewportRects :
           \E inner \in {r \in ViewportRects : rectCovers(outer, r)} :
              GeomRangePair(inner, outer)
    \/ GeomReturn

SpecGeom == InitGeom /\ [][NextGeom]_vars

\* the geometries C10 calls degenerate: no column, a viewport narrower than
\* the column count (tile width 0), a viewport without height (tile height 0)
degenerateGeometry ==
    \/ columnCount = 0
    \/ viewW < columnCount
    \/ viewH = 0

\* ---------------------------------------------------- claims under SpecGeom
\* C6: for every viewport size, scroll offset and column count >= 1 with a
\* non-zero tile size, and every index in [0, rowCount), indexAt of the centre
\* of visualRect(index) is that index.
C6_GeometryRoundTrip ==
    (geo.op = "roundTrip" /\ columnCount >= 1 /\ tileWidth # 0 /\ tileHeight # 0)
        => geo.val = geo.arg

\* an index of the second tile row, scrolled partly out of the viewport
C6_Witness ==
    /\ geo.op = "roundTrip"
    /\ geo.arg >= columnCount
    /\ geo.arg = rowCount - 1
    /\ vOffset > 0
    /\ columnCount = 2
    /\ visualRect(geo.arg).y1 < viewH
    /\ geo.val = geo.arg

\* C7: for query rects R1 inside R2, in one geometry, the range of R2 contains
\* the range of R1: first(R2) <= first(R1) and last(R2) >= last(R1).
C7_VisibleRangeMonotone ==
    geo.op = "rangePair" =>
        /\ geo.val[2][1] <= geo.val[1][1]
        /\ geo.val[2][2] >= geo.val[1][2]

\* C17: modelIndexRangeForRect returns a well-formed range for every rect, also
\* a non-normalized one or one with negative coordinates, every scroll offset and
\* every row count: 0 <= first <= last <= rowCount.
C17_RangeWellFormed ==
    (geo.op = "range" /\ ~geo.ub) =>
        /\ 0 <= geo.val[1]
        /\ geo.val[1] <= geo.val[2]
        /\ geo.val[2] <= rowCount

\* C10: in a degenerate geometry visualRect, indexAt and
\* modelIndexRangeForRect divide by nothing that is zero, and the range
\* returned is empty and holds no negative index.
C10_DegenerateGeometryIsNoCrash ==
    (degenerateGeometry /\ geo.op \in {"visualRect", "indexAt", "range"}) =>
        /\ ~geo.ub
        /\ geo.op = "range" => (geo.val[1] >= geo.val[2] /\ geo.val[1] >= 0)

\* --------------------------------------------------------------- SpecCache
\* The operations the view performs on m_imageCache, in any order, with keys
\* that outnumber the capacity: the subscriber's insert (line 101), the
\* snapshot's take (line 54), paintEvent's object (line 363), reset's clear
\* (line 472) and updateGeometries' setMaxCost (line 415).  The view shows one
\* column, so that the capacity is 5 per row of the model.
\*
\* lru.run is the sequence of distinct keys inserted since the last clear;
\* lru.pure says that nothing but such inserts touched the cache since.

\* the rest of the view while only its cache is exercised
cacheKept == <<columnCount, viewW, viewH, vOffset, vMax, pipeVars, emits, geo,
               histVars, decoding>>

\* a model of n rows with a file name of its own in each
distinctKeys(n) == [i \in 1..n |-> i]

InitCache ==
    /\ InitView
    /\ columnCount = 1
    /\ modelKeys = <<>>
    /\ viewW \in ViewWidths
    /\ viewH \in ViewHeights

\* a cache operation's record in ev: the entries held before it
cacheStep(name) == ev' = [step |-> name, emit |-> FALSE, before |-> Len(cache)]

\* the run of inserts is over
lruBroken == [run |-> <<>>, pure |-> FALSE]

\* m_imageCache.insert(key, image), line 101
CacheInsert(k) ==
    /\ cache' = cacheInsert(cache, maxCost, k, "ok")
    /\ lru' = IF lru.pure /\ k \notin {lru.run[i] : i \in 1..Len(lru.run)}
              THEN [run |-> Append(lru.run, k), pure |-> TRUE]
              ELSE lruBroken
    /\ cacheStep("insert")
    /\ UNCHANGED <<modelKeys, maxCost, cacheKept>>

\* m_imageCache.take(key), line 54
CacheTake(k) ==
    /\ cache' = cacheRemove(cache, k)
    /\ lru' = lruBroken
    /\ cacheStep("take")
    /\ UNCHANGED <<modelKeys, maxCost, cacheKept>>

\* m_imageCache.object(key), line 363
CacheObject(k) ==
    /\ cache' = cacheObject(cache, k)
    /\ lru' = lruBroken
    /\ cacheStep("object")
    /\ UNCHANGED <<modelKeys, maxCost, cacheKept>>

\* m_imageCache.clear(), line 472
CacheClear ==
    /\ cache' = <<>>
    /\ lru' = [run |-> <<>>, pure |-> TRUE]
    /\ cacheStep("clear")
    /\ UNCHANGED <<modelKeys, maxCost, cacheKept>>

\* updateGeometries (lines 406-415) once the model has come to hold n rows
CacheSetMaxCost(n) ==
    /\ modelKeys' = distinctKeys(n)
    /\ maxCost' = ugMaxCostFor(n, columnCount)
    /\ cache' = cacheSetMaxCost(cache, ugMaxCostFor(n, columnCount))
    /\ lru' = IF lru.pure /\ lru.run = <<>> THEN lru ELSE lruBroken
    /\ cacheStep("setMaxCost")
    /\ UNCHANGED cacheKept

NextCache ==
    \/ \E k \in 1..CacheMaxKey : CacheInsert(k)
    \/ \E k \in 1..CacheMaxKey : CacheTake(k)
    \/ \E k \in 1..CacheMaxKey : CacheObject(k)
    \/ CacheClear
    \/ \E n \in 0..CacheMaxRows : CacheSetMaxCost(n)

SpecCache == InitCache /\ [][NextCache]_vars

\* --------------------------------------------------- claims under SpecCache
\* C3: after any sequence of insert, take, clear and setMaxCost the total cost
\* of the entries held (1 each) is at most maxCost, but for a just-inserted
\* entry whose own cost exceeds maxCost.
C3_CacheCapacity ==
    \/ Len(cache) <= maxCost
    \/ ev.step = "insert" /\ 1 > maxCost /\ Len(cache) = 1

\* updateGeometries lowered the capacity below what the cache held
C3_Witness ==
    /\ ev.step = "setMaxCost"
    /\ ev.before > maxCost
    /\ maxCost > 0
    /\ Len(cache) = maxCost

\* C14: after every recomputation of the geometry maxCost is 5 times the
\* visible tile capacity: the tile rows that fit in the viewport times
\* columnCount, whatever the number of rows of the model.
C14_CapacityPolicy ==
    ev.step = "setMaxCost" =>
        maxCost = Overscan * CDiv(viewH, tileHeight) * columnCount

\* C4: with capacity N, N + 1 distinct keys inserted into the empty cache with
\* no other cache operation in between evict exactly one entry, the key
\* inserted first; the N keys inserted last remain.
C4_LruEviction ==
    (lru.pure /\ Len(lru.run) = maxCost + 1) =>
        /\ Len(cache) = maxCost
        /\ lru.run[1] \notin cacheKeys(cache)
        /\ \A i \in 2..Len(lru.run) : lru.run[i] \in cacheKeys(cache)

\* six keys inserted into a cache of capacity five
C4_Witness ==
    /\ lru.pure
    /\ maxCost = Overscan
    /\ Len(lru.run) = maxCost + 1
    /\ ev.step = "insert"

\* ----------------------------------------------------------------- SpecE2E
\* One load, end to end: twelve rows with a file of their own each (all of
\* them decode), the constructor's five columns, a viewport two tile rows
\* high, not scrolled; reset() (run by setModel) is the only trigger.

\* the viewport widths of the scenario: a multiple of the column count, and not
E2EWidths == {10, 11}

\* twelve file names, none of them in BadKeys
e2eKeys == [i \in 1..12 |-> i + Cardinality(Keys)]

InitE2E ==
    /\ InitView
    /\ columnCount = InitialColumnCount
    /\ modelKeys = e2eKeys
    /\ viewW \in E2EWidths
    /\ viewH = 2 * CDiv(viewW, InitialColumnCount)

\* the one trigger of the scenario: reset(), lines 469-474
E2ETrigger ==
    /\ emits = 0
    /\ Reset

NextE2E ==
    \/ E2ETrigger
    \/ Tick
    \/ DebounceFire
    \/ Snapshot
    \/ SwitchOnNext
    \/ DecodeTask
    \/ BufferFlush
    \/ Apply

SpecE2E == InitE2E /\ [][NextE2E]_vars

\* ----------------------------------------------------- claims under SpecE2E
\* C8: with 12 distinct keys, 5 columns and a viewport that covers exactly tile
\* rows 0 and 1, the one trigger yields the range [0, 10) and 10 load tasks, one
\* per index 0..9; when all of them reach one buffer window the apply step
\* makes one repaint call covering tiles 0..9, and the cache then holds exactly
\* those 10 entries.
C8_EndToEnd ==
    /\ ev.step = "snapshot" =>
           /\ ev.range = <<0, 10>>
           /\ Len(toSwitch) = 1
           /\ Len(toSwitch[1].tasks) = 10
           /\ \A i \in 1..10 : toSwitch[1].tasks[i].row = i - 1
    /\ (ev.step = "apply" /\ 0..9 \subseteq ev.rows) =>
           /\ Len(ev.repaints) = 1
           /\ \A r \in 0..9 : rectCovers(ev.repaints[1], visualRect(modelIndex(r)))
           /\ cacheKeys(cache) = {keyOfRow(r) : r \in 0..9}
           /\ Len(cache) = 10

\* ------------------------------------------------------------- SpecWorkers
\* Spec with the decode given a duration: a worker thread of the event loop
\* (line 76) starts a task and finishes it later, while timers, triggers and
\* the UI thread go on.  decoding holds the tasks that are running.

\* the generations that have a task running
decodingGens == {decoding[i].gen : i \in 1..Len(decoding)}

\* the results on their way to the subscriber, oldest first: the closed windows
\* queued for the UI thread (line 96), then the open window (line 92)
RECURSIVE flatten(_)
flatten(batches) ==
    IF batches = <<>> THEN <<>> ELSE Head(batches) \o flatten(Tail(batches))

inFlight == flatten(uiBatches) \o buf

\* a merge in place of concat: a decode starts while one of its generation runs
DecodeStart_Merge ==
    /\ curTasks # <<>>
    /\ decoding' = Append(decoding, [gen |-> curGen, task |-> Head(curTasks)])
    /\ curTasks' = Tail(curTasks)
    /\ ev' = [step |-> "none", emit |-> FALSE]
    /\ UNCHANGED <<hostVars, cacheVars, debounceLeft, sinceTrigger, uiTrig, gen,
                   toSwitch, curGen, buf, bufLeft, uiBatches, emits, geo, lru, histVars>>

\* concat (line 80) subscribes the next task's observable when the one before
\* has completed; its subscribe_on (line 76) then starts the decode on a worker
DecodeStart ==
    /\ curTasks # <<>>
    /\ curGen \notin decodingGens
    /\ decoding' = Append(decoding, [gen |-> curGen, task |-> Head(curTasks)])
    /\ curTasks' = Tail(curTasks)
    /\ quiet
    /\ UNCHANGED <<hostVars, cacheVars, debounceLeft, sinceTrigger, uiTrig, gen,
                   toSwitch, curGen, buf, bufLeft, uiBatches, emits, geo, lru, histVars>>

\* lines 67-74: the decode ends and emits its item; switch_on_next (line 88)
\* passes it on only while it is still subscribed to the item's generation
DecodeFinish(i) ==
    /\ i \in 1..Len(decoding)
    /\ LET task == decoding[i].task
           img == IF decodeLoads(task) THEN imageLoad(task.key) ELSE task.prior
       IN  /\ buf' = IF decoding[i].gen = curGen
                     THEN Append(buf, [gen |-> curGen, row |-> task.row, key |-> task.key,
                                       img |-> img])
                     ELSE buf
           /\ ev' = [step |-> "decode", emit |-> FALSE, prior |-> task.prior,
                     loaded |-> decodeLoads(task)]
           /\ cache' = decodeCache(cache, maxCost, task.key, img)
    /\ decoding' = SubSeq(decoding, 1, i - 1) \o SubSeq(decoding, i + 1, Len(decoding))
    /\ UNCHANGED <<hostVars, maxCost, debounceLeft, sinceTrigger, uiTrig, gen,
                   toSwitch, curGen, curTasks, bufLeft, uiBatches, emits, geo, lru,
                   histVars>>

NextWorkers ==
    \/ \E v \in 0..vMax : Scroll(v)
    \/ \E w \in ViewWidths, h \in ViewHeights : Resize(w, h)
    \/ Reset
    \/ \E c \in ColumnCounts : SetColumnCount(c)
    \/ Tick
    \/ DebounceFire
    \/ Snapshot
    \/ SwitchOnNext
    \/ DecodeStart
    \/ \E i \in 1..Len(decoding) : DecodeFinish(i)
    \/ BufferFlush
    \/ Apply

SpecWorkers == Init /\ [][NextWorkers]_vars

\* the steps the UI thread's event loop runs: an event handler that ends in
\* emitLoadEvent, the map of lines 48-57 and the subscriber of lines 98-108,
\* both behind observe_on_run_loop (lines 46 and 96)
UiThreadSteps == {"emit", "snapshot", "apply"}

\* -------------------------------------------------- claims under SpecWorkers
\* C16: the cache is accessed on the UI thread only: every step that changes the
\* cache or its capacity is a step of the UI thread, also while worker threads
\* are decoding, so a worker step never overlaps a cache operation.
C16_ControlThreadOnlyCacheAccess ==
    [][(cache' # cache \/ maxCost' # maxCost) => ev'.step \in UiThreadSteps]_vars

\* a decode has just ended on a worker thread while another one still runs, and
\* the cache holds an image
C16_Witness ==
    /\ ev.step = "decode"
    /\ decoding # <<>>
    /\ cache # <<>>

\* C18: within one generation results are delivered in ascending row order: of
\* two results of a generation on their way to the subscriber the earlier one
\* has the smaller row, and a task of the generation still being decoded has a
\* larger row than every result of it already on the way.
C18_InOrderDelivery ==
    /\ \A i, j \in 1..Len(inFlight) :
           (i < j /\ inFlight[i].gen = inFlight[j].gen) => inFlight[i].row < inFlight[j].row
    /\ \A i \in 1..Len(inFlight), d \in 1..Len(decoding) :
           decoding[d].gen = inFlight[i].gen => inFlight[i].row < decoding[d].task.row

\* two results of one generation wait in the open window while a decode of an
\* older generation is still running
C18_Witness ==
    /\ Len(buf) = 2
    /\ buf[1].gen = buf[2].gen
    /\ decoding # <<>>

\* C12: the decodes of one generation are not serialized: while a task of the
\* generation is being decoded and another one waits, the decode of the waiting
\* task can start.
C12_DecodesNotSerialized ==
    (curTasks # <<>> /\ curGen \in decodingGens) => ENABLED DecodeStart

\* ---------------------------------------------------------------- SpecFair
\* SpecWorkers on a model of MaxRows rows, with the scheduling the run time
\* gives: time passes, a due timer fires, the event loop's workers and the UI
\* run loop run what is queued for them.  The host is under no obligation.

\* the cache once the tiles in the viewport have been loaded: the subscriber's
\* inserts (line 101) for the rows of the visible range (line 50), in row order
firstLoad ==
    LET range == modelIndexRangeForRect(viewportRect)
    IN  applyInserts([i \in 1..(range[2] - range[1]) |->
                         [key |-> keyOfRow(range[1] + i - 1),
                          img |-> imageLoad(keyOfRow(range[1] + i - 1))]],
                     <<>>, maxCost)

\* the view shown with its model: resizeEvent has run updateGeometries (lines
\* 408-449) and the load it asked for has ended and left the visible tiles
\* cached; triggers and generations count from here
InitFair ==
    /\ InitPipeline
    /\ columnCount \in ColumnCounts
    /\ modelKeys = keysFor(MaxRows)
    /\ viewW \in ViewWidths
    /\ viewH \in ViewHeights
    /\ vOffset = 0
    /\ vMax = ugScrollMax(viewW, viewH, FALSE)
    /\ maxCost = ugMaxCost
    /\ cache = firstLoad
    /\ geo = [op |-> "none"]
    /\ lru = [run |-> <<>>, pure |-> TRUE]
    /\ loading = {}
    /\ resetGen = 0
    /\ taken = {}
    /\ decoding = <<>>

NextFair ==
    \/ \E v \in 0..vMax : Scroll(v)
    \/ \E w \in ViewWidths, h \in ViewHeights : Resize(w, h)
    \/ Reset
    \/ Tick
    \/ DebounceFire
    \/ Snapshot
    \/ SwitchOnNext
    \/ DecodeStart
    \/ \E i \in 1..Len(decoding) : DecodeFinish(i)
    \/ BufferFlush
    \/ Apply

\* time goes on and a due timer fires (lines 44 and 92)
timeSteps == Tick \/ DebounceFire \/ BufferFlush

\* the UI run loop runs what observe_on queued for it (lines 46 and 96)
uiSteps == Snapshot \/ Apply

\* the event loop's workers run what is scheduled on them (lines 76-90)
workerSteps == SwitchOnNext \/ DecodeStart \/ \E i \in 1..Len(decoding) : DecodeFinish(i)

SpecFair ==
    /\ InitFair
    /\ [][NextFair]_vars
    /\ WF_vars(timeSteps)
    /\ WF_vars(uiSteps)
    /\ WF_vars(workerSteps)

\* the pipeline at rest: no trigger pending, no task waiting or running, no
\* result buffered or queued
pipelineIdle ==
    /\ debounceLeft = NotArmed
    /\ uiTrig = 0
    /\ toSwitch = <<>>
    /\ curTasks = <<>>
    /\ decoding = <<>>
    /\ buf = <<>>
    /\ uiBatches = <<>>

visibleKeys ==
    LET range == modelIndexRangeForRect(viewportRect)
    IN  {keyOfRow(row) : row \in range[1]..(range[2] - 1)}

\* the part of C20 about the last visible range: once triggers have stopped, a
\* cache with room for the visible tiles ends up holding every one of them
visibleTilesCached ==
    <>[](emits = 0 \/ maxCost < Cardinality(visibleKeys)
                  \/ visibleKeys \subseteq cacheKeys(cache))

\* C20: when triggers stop after at least one, a cache with room for the last
\* visible range ends up holding every key of it, and every image a snapshot
\* took out of the cache is back in the cache once the pipeline is quiescent,
\* also when the generation that took it was superseded.
C20_VisibleTilesEndUpCached ==
    <>[](emits = 0 \/ maxCost < Cardinality(visibleKeys)
                  \/ /\ visibleKeys \subseteq cacheKeys(cache)
                     /\ pipelineIdle => taken \subseteq cacheKeys(cache))
====
